---- MODULE Spec2Model ----
(***************************************************************************)
(* Project mutation and audit trail of the arch-kifah backend.             *)
(*                                                                         *)
(* ProjectService.update and ProjectService.delete                         *)
(* (src/services/ImageService.js) and the routes                           *)
(* PUT /api/projects/:id/subgoals/:subgoalId/cost and POST /api/timers     *)
(* (src/server.js) are                                                     *)
(* modelled as processes ("callers") over one shared document store.  A    *)
(* JavaScript handler runs without interruption between two awaits, so     *)
(* every action below is the code from one await to the next; a store      *)
(* round trip is executed on the store at the step that resumes the        *)
(* handler.                                                                *)
(***************************************************************************)
EXTENDS Integers, Sequences, FiniteSets, TLC

\* ------------------------------------------------------------------ bounds
MaxFail == 1           \* store round trips that fail in one behaviour of Spec
MaxLockFail == 4       \* store round trips that fail in one behaviour of LockSpec
MaxSeqCalls == 22      \* calls started in one behaviour of SeqSpec
MaxSeqCostCalls == 2   \* of which sub-goal cost calls
MaxPolls == 2          \* busy polls of one lock acquisition that are counted
MaxOvertake == 2       \* acquisitions by later waiters that are counted for one wait
MaxTimerCalls == 3     \* timer-start requests in one behaviour of TimerSpec

\* --------------------------------------------------------- program values
maxRetries == 3        \* ProjectService.update: const maxRetries = 3
HistoryLimit == 20     \* $slice: -20

Callers == {"c1", "c2"}
ValidIds == {"p1", "p2"}        \* well-formed ObjectId strings
InvalidIds == {"bad"}           \* strings ObjectId.isValid rejects
Ids == ValidIds \cup InvalidIds

RetryableErrors == {"MongoNetworkTimeoutError", "MongoServerError"}
OtherErrors == {"MongoParseError"}
ErrorNames == RetryableErrors \cup OtherErrors

Null == [isNull |-> TRUE]
IsNull(d) == "isNull" \in DOMAIN d

Has(obj, f) == f \in DOMAIN obj

\* the last n elements of s (all of s when it is shorter); n >= 0
LastN(s, n) == IF Len(s) <= n THEN s ELSE SubSeq(s, Len(s) - n + 1, Len(s))

RECURSIVE SumGoalCost(_)
SumGoalCost(goals) ==
    IF goals = <<>> THEN 0
    ELSE Head(goals).goalCost + SumGoalCost(Tail(goals))

\* ObjectId.isValid
IsValidAlways(id) == TRUE
IsValid(id) == id \in ValidIds

\* ------------------------------------------------------- ProjectService
\* cleanUpdateData: a copy of the patch without id, _id, createdAt, history
cleanUpdateDataKeepsHistory(data) ==
    [f \in DOMAIN data \ {"id", "_id", "createdAt"} |-> data[f]]
cleanUpdateData(data) ==
    [f \in DOMAIN data \ {"id", "_id", "createdAt", "history"} |-> data[f]]

\* shouldAddHistory: status || subgoals || totalCost !== undefined
\* (a status string of the model is never empty; an array is always truthy)
shouldAddHistoryAlways(updateData) == TRUE
shouldAddHistory(updateData) ==
    Has(updateData, "status") \/ Has(updateData, "subgoals")
        \/ Has(updateData, "totalCost")

\* shouldAddHistoryForField('totalCost', updateData.totalCost, current.totalCost)
totalCostChangedNoDefault(updateData, current) ==
    /\ Has(updateData, "totalCost")
    /\ ~(Has(current, "totalCost") /\ updateData.totalCost = current.totalCost)
totalCostChanged(updateData, current) ==
    /\ Has(updateData, "totalCost")
    /\ updateData.totalCost # (IF Has(current, "totalCost") THEN current.totalCost ELSE 0)

\* shouldAddHistoryForField('status', updateData.status, current.status)
statusChanged(updateData, current) ==
    /\ Has(updateData, "status")
    /\ ~(Has(current, "status") /\ updateData.status = current.status)

\* shouldAddHistoryForField('subgoals', updateData.subgoals, current.subgoals):
\* oldValue?.length || 0 against newValue?.length || 0
subgoalsChanged(updateData, current) ==
    LET oldCount == IF Has(current, "subgoals") THEN Len(current.subgoals) ELSE 0
        newCount == IF Has(updateData, "subgoals") THEN Len(updateData.subgoals) ELSE 0
    IN  newCount # oldCount

hasActualChanges(updateData, current) ==
    \/ totalCostChanged(updateData, current)
    \/ statusChanged(updateData, current)
    \/ subgoalsChanged(updateData, current)

getHistoryType(updateData) ==
    IF Has(updateData, "status") THEN "status_changed"
    ELSE IF Has(updateData, "subgoals") THEN "goals_updated"
    ELSE IF Has(updateData, "totalCost") THEN "cost_updated"
    ELSE "updated"

\* getDetailedChanges: per audited field of the patch, <<from, to>>
getDetailedChanges(updateData, current) ==
    [f \in DOMAIN updateData \cap {"status", "totalCost", "subgoals"} |->
        IF f = "status"
        THEN <<IF Has(current, "status") THEN current.status ELSE "undefined",
               updateData.status>>
        ELSE IF f = "totalCost"
        THEN <<IF Has(current, "totalCost") THEN current.totalCost ELSE 0,
               updateData.totalCost>>
        ELSE <<IF Has(current, "subgoals") THEN Len(current.subgoals) ELSE 0,
               Len(updateData.subgoals)>>]

\* the entry ProjectService.update builds for a significant change
historyEntry(updateData, current, now) ==
    [type |-> getHistoryType(updateData),
     timestamp |-> now,
     changes |-> getDetailedChanges(updateData, current)]

\* the update document of ProjectService.update: $set and, for an actual
\* change against the snapshot read for diffing, $push of one entry
buildOperations(updateData, current, now) ==
    LET set == [f \in DOMAIN cleanUpdateData(updateData) \cup {"updatedAt"} |->
                   IF f = "updatedAt" THEN now ELSE updateData[f]]
    IN  IF shouldAddHistory(updateData) /\ ~IsNull(current)
           /\ hasActualChanges(updateData, current)
        THEN [set |-> set, push |-> <<historyEntry(updateData, current, now)>>,
              slice |-> TRUE]
        ELSE [set |-> set, push |-> <<>>, slice |-> FALSE]

\* ---------------------------------------------------------------- store
\* $set of fields on a document
SetFields(doc, set) ==
    [f \in DOMAIN doc \cup DOMAIN set |-> IF f \in DOMAIN set THEN set[f] ELSE doc[f]]

PushHistoryKeepOldest(history, entries, slice) ==
    IF slice /\ Len(history \o entries) > HistoryLimit
    THEN SubSeq(history \o entries, 1, HistoryLimit)
    ELSE history \o entries
\* $push { history: { $each: entries, $slice: -20 } }, or a plain $push
PushHistory(history, entries, slice) ==
    IF slice THEN LastN(history \o entries, HistoryLimit) ELSE history \o entries

\* one update document applied to one stored document
ApplyUpdate(doc, ops) ==
    LET d == SetFields(doc, ops.set)
    IN  IF ops.push = <<>> THEN d
        ELSE [d EXCEPT !.history = PushHistory(d.history, ops.push, ops.slice)]

\* first sub-goal with the given id ($ positional operator), 0 when none
RECURSIVE IndexOfGoal(_, _, _)
IndexOfGoal(goals, subgoalId, i) ==
    IF i > Len(goals) THEN 0
    ELSE IF goals[i].id = subgoalId THEN i
    ELSE IndexOfGoal(goals, subgoalId, i + 1)

\* Number(x) || alt, for a field that may be missing
NumberOr(doc, f, alt) == IF Has(doc, f) /\ doc[f] # 0 THEN doc[f] ELSE alt

\* ------------------------------------------------------------ the state
VARIABLES
    store,             \* projects collection: _id -> document
    updateLocks,       \* ProjectService.updateLocks: the ids that have a key
    clock,             \* new Date(): a logical time that advances when read
    pc,                \* per caller: the await its handler is suspended at
    args,              \* per caller: the arguments of its running call
    retryCount,        \* per caller: retryCount of its running update frame
    now,               \* per caller: const now of the running attempt
    currentProject,    \* per caller: snapshot read for diffing, or Null
    updateOperations,  \* per caller: the update document of the attempt
    updatedDoc,        \* per caller: document returned by the sub-goal write
    oldCost,           \* per caller: oldCost of updateSubgoalCost
    result,            \* per caller: the snapshot returned, or Null
    outcome,           \* per caller: "ok" or the message of the error surfaced
    errors,            \* per caller: names of the store errors caught so far
    appended,          \* per project: every history entry ever pushed, in order
    failures,          \* store round trips that failed so far
    calls,             \* calls started so far
    polls,             \* per caller: times this acquisition found the id busy
    queue,             \* the callers in a wait, in the order their waits began
    overtaken,         \* per caller in a wait: acquisitions by later waiters
    timers,            \* timers collection: the documents in insertion order
    costCalls          \* sub-goal cost calls started so far

vars == <<store, updateLocks, clock, pc, args, retryCount, now, currentProject,
          updateOperations, updatedDoc, oldCost, result, outcome, errors,
          appended, failures, calls, polls, queue, overtaken, timers, costCalls>>

frame == <<now, currentProject, updateOperations, updatedDoc, oldCost>>

order == <<queue, overtaken>>

InitCosts == {0, 1}
InitSubgoals == << [id |-> "a", goalCost |-> 0], [id |-> "b", goalCost |-> 0] >>

\* ProjectService.create: the stored document of a new project
create(projectData, createdAt) ==
    [title |-> projectData.title,
     status |-> "waiting",
     totalCost |-> projectData.totalCost,
     originalCost |-> projectData.totalCost,
     subgoals |-> projectData.subgoals,
     updatedAt |-> createdAt,
     history |-> << [type |-> "created", timestamp |-> createdAt] >>]

Init ==
    /\ \E cost \in InitCosts :
          store = [id \in {"p1"} |->
                      create([title |-> "t0", totalCost |-> cost,
                              subgoals |-> InitSubgoals], 0)]
    /\ updateLocks = {}
    /\ clock = 0
    /\ pc = [c \in Callers |-> "idle"]
    /\ args = [c \in Callers |-> Null]
    /\ retryCount = [c \in Callers |-> 0]
    /\ now = [c \in Callers |-> 0]
    /\ currentProject = [c \in Callers |-> Null]
    /\ updateOperations = [c \in Callers |-> Null]
    /\ updatedDoc = [c \in Callers |-> Null]
    /\ oldCost = [c \in Callers |-> 0]
    /\ result = [c \in Callers |-> Null]
    /\ outcome = [c \in Callers |-> "none"]
    /\ errors = [c \in Callers |-> <<>>]
    /\ appended = [id \in ValidIds |-> IF id \in DOMAIN store THEN store[id].history ELSE <<>>]
    /\ failures = 0
    /\ calls = 0
    /\ polls = [c \in Callers |-> 0]
    /\ queue = <<>>
    /\ overtaken = [c \in Callers |-> 0]
    /\ timers = <<>>
    /\ costCalls = 0

\* ------------------------------------------------- ProjectService.update
\* updateLocks.has / set / delete
LockHeldNever(locks, id) == FALSE
LockHeldAny(locks, id) == locks # {}
LockHeld(locks, id) == id \in locks
SetLockForgotten(locks, id) == locks
SetLock(locks, id) == locks \cup {id}
ReleaseLockForgotten(locks, id) == locks
ReleaseLock(locks, id) == locks \ {id}

\* catch: retry only a network timeout / server error while retryCount < maxRetries
ShouldRetryOnce(errorName, count) ==
    errorName \in RetryableErrors /\ count < 1
ShouldRetryUnbounded(errorName, count) ==
    errorName \in RetryableErrors
ShouldRetryAnyError(errorName, count) ==
    count < maxRetries
ShouldRetry(errorName, count) ==
    errorName \in RetryableErrors /\ count < maxRetries

\* the caller is between updateLocks.set and the finally of an update frame
InCritical(c) == pc[c] \in {"findOne", "findOneAndUpdate", "backoff"}

\* an update frame ends: return or throw, then finally releases the lock
Finish(c, locks, id, message, snapshot) ==
    /\ pc' = [pc EXCEPT ![c] = "done"]
    /\ outcome' = [outcome EXCEPT ![c] = message]
    /\ result' = [result EXCEPT ![c] = snapshot]
    /\ updateLocks' = ReleaseLock(locks, id)

\* catch (error) of an update frame that holds the lock
Catch(c, errorName) ==
    /\ errors' = [errors EXCEPT ![c] = Append(@, errorName)]
    /\ IF ShouldRetry(errorName, retryCount[c])
       THEN /\ pc' = [pc EXCEPT ![c] = "backoff"]
            /\ UNCHANGED <<updateLocks, outcome, result>>
       ELSE Finish(c, updateLocks, args[c].id, errorName, Null)

\* catch (error) of an update frame for a plain Error thrown by the frame
\* itself: its name is 'Error'
Throw(c, locks, id, message) ==
    IF ShouldRetry("Error", retryCount[c])
    THEN /\ pc' = [pc EXCEPT ![c] = "backoff"]
         /\ updateLocks' = locks
         /\ UNCHANGED <<outcome, result>>
    ELSE Finish(c, locks, id, message, Null)

\* the order of the waits: c is in a wait; the queue without c; the wait of d
\* began before the wait of c
Queued(c) == \E i \in 1..Len(queue) : queue[i] = c
Leave(q, c) == SelectSeq(q, LAMBDA d : d # c)
Ahead(d, c) ==
    \E i, j \in 1..Len(queue) : i < j /\ queue[i] = d /\ queue[j] = c

\* update(projectId, updateData, retryCount) from its first line to its first
\* await: the lock check, the lock, the id check, the choice to read first.
\* callerReleases: the frame is the retry called from a catch block, whose
\* finally deletes the key as soon as this call has returned its promise.
Enter(c, a, callerReleases) ==
    IF LockHeld(updateLocks, a.id)
    THEN /\ pc' = [pc EXCEPT ![c] = "waiting"]
         /\ updateLocks' = IF callerReleases THEN ReleaseLock(updateLocks, a.id)
                           ELSE updateLocks
         /\ polls' = [polls EXCEPT ![c] = IF @ < MaxPolls THEN @ + 1 ELSE @]
         /\ queue' = IF Queued(c) THEN queue ELSE Append(queue, c)
         /\ UNCHANGED overtaken
         /\ UNCHANGED <<clock, frame, result, outcome>>
    ELSE IF ~IsValid(a.id)
    THEN /\ Throw(c, SetLock(updateLocks, a.id), a.id, "Invalid project ID")
         /\ polls' = [polls EXCEPT ![c] = 0]
         /\ queue' = Leave(queue, c)
         /\ overtaken' = [overtaken EXCEPT ![c] = 0]
         /\ UNCHANGED <<clock, frame>>
    ELSE /\ polls' = [polls EXCEPT ![c] = 0]
         /\ queue' = Leave(queue, c)
         /\ overtaken' = [d \in Callers |->
                IF d = c THEN 0
                ELSE IF Ahead(d, c) /\ args[d].id = a.id /\ overtaken[d] < MaxOvertake
                THEN overtaken[d] + 1
                ELSE overtaken[d]]
         /\ updateLocks' = IF callerReleases
                           THEN ReleaseLock(SetLock(updateLocks, a.id), a.id)
                           ELSE SetLock(updateLocks, a.id)
         /\ clock' = clock + 1
         /\ now' = [now EXCEPT ![c] = clock + 1]
         /\ IF shouldAddHistory(a.patch)
            THEN /\ pc' = [pc EXCEPT ![c] = "findOne"]
                 /\ currentProject' = [currentProject EXCEPT ![c] = Null]
                 /\ UNCHANGED updateOperations
            ELSE /\ pc' = [pc EXCEPT ![c] = "findOneAndUpdate"]
                 /\ currentProject' = [currentProject EXCEPT ![c] = Null]
                 /\ updateOperations' = [updateOperations EXCEPT ![c] =
                        buildOperations(a.patch, Null, clock + 1)]
         /\ UNCHANGED <<updatedDoc, oldCost, result, outcome>>

\* a caller invokes ProjectService.update(id, patch)
CallUpdate(c, id, patch) ==
    /\ pc[c] = "idle"
    /\ args' = [args EXCEPT ![c] = [op |-> "update", id |-> id, patch |-> patch]]
    /\ retryCount' = [retryCount EXCEPT ![c] = 0]
    /\ errors' = [errors EXCEPT ![c] = <<>>]
    /\ calls' = calls + 1
    /\ Enter(c, args'[c], FALSE)
    /\ UNCHANGED <<timers, store, appended, failures, costCalls>>

\* the 100ms wait is over: return this.update(projectId, updateData, retryCount)
PollTimesOut(c) ==
    /\ pc[c] = "waiting"
    /\ IF LockHeld(updateLocks, args[c].id) /\ polls[c] >= 1
       THEN /\ pc' = [pc EXCEPT ![c] = "done"]
            /\ outcome' = [outcome EXCEPT ![c] = "ConcurrencyTimeout"]
            /\ UNCHANGED <<updateLocks, clock, frame, result, polls, order>>
       ELSE Enter(c, args[c], FALSE)
    /\ UNCHANGED <<timers, store, args, retryCount, errors, appended, failures, calls, costCalls>>
PollFifo(c) ==
    /\ pc[c] = "waiting"
    /\ \/ LockHeld(updateLocks, args[c].id)
       \/ ~\E d \in Callers : Ahead(d, c) /\ args[d].id = args[c].id
    /\ Enter(c, args[c], FALSE)
    /\ UNCHANGED <<timers, store, args, retryCount, errors, appended, failures, calls, costCalls>>
Poll(c) ==
    /\ pc[c] = "waiting"
    /\ Enter(c, args[c], FALSE)
    /\ UNCHANGED <<timers, store, args, retryCount, errors, appended, failures, calls, costCalls>>

\* findOne resolves: the snapshot for diffing, then the update document
FindOne(c) ==
    /\ pc[c] = "findOne"
    /\ LET id == args[c].id
           cur == IF id \in DOMAIN store THEN store[id] ELSE Null
       IN  /\ currentProject' = [currentProject EXCEPT ![c] = cur]
           /\ updateOperations' = [updateOperations EXCEPT ![c] =
                  buildOperations(args[c].patch, cur, now[c])]
    /\ pc' = [pc EXCEPT ![c] = "findOneAndUpdate"]
    /\ UNCHANGED <<timers, store, updateLocks, clock, args, retryCount, now, updatedDoc,
                   oldCost, result, outcome, errors, appended, failures, calls,
                   polls, order, costCalls>>

\* the effect of findOneAndUpdate({_id}, updateOperations) on the collection
WriteUpdateUpsert(c) ==
    LET id == args[c].id
    IN  IF id \in DOMAIN store
        THEN /\ store' = [store EXCEPT ![id] = ApplyUpdate(@, updateOperations[c])]
             /\ appended' = [appended EXCEPT ![id] = @ \o updateOperations[c].push]
        ELSE /\ store' = [i \in DOMAIN store \cup {id} |->
                            IF i = id THEN updateOperations[c].set ELSE store[i]]
             /\ UNCHANGED appended
WriteUpdate(c) ==
    LET id == args[c].id
    IN  IF id \in DOMAIN store
        THEN /\ store' = [store EXCEPT ![id] = ApplyUpdate(@, updateOperations[c])]
             /\ appended' = [appended EXCEPT ![id] = @ \o updateOperations[c].push]
        ELSE UNCHANGED <<store, appended>>

\* findOneAndUpdate resolves: the document after the update, or null
FindOneAndUpdate(c) ==
    /\ pc[c] = "findOneAndUpdate"
    /\ WriteUpdate(c)
    /\ IF args[c].id \in DOMAIN store
       THEN Finish(c, updateLocks, args[c].id, "ok", store'[args[c].id])
       ELSE Throw(c, updateLocks, args[c].id, "Project not found")
    /\ UNCHANGED <<timers, clock, args, retryCount, frame, errors, failures, calls, polls, order,
                   costCalls>>

\* findOne rejects with a store error
FindOneFails(c, errorName) ==
    /\ pc[c] = "findOne"
    /\ failures' = failures + 1
    /\ Catch(c, errorName)
    /\ UNCHANGED <<timers, store, clock, args, retryCount, frame, appended, calls, polls, order,
                   costCalls>>

\* findOneAndUpdate rejects with a store error; the server may or may not
\* have applied the write before the error reached the driver
FindOneAndUpdateFails(c, errorName, applied) ==
    /\ pc[c] = "findOneAndUpdate"
    /\ failures' = failures + 1
    /\ IF applied THEN WriteUpdate(c) ELSE UNCHANGED <<store, appended>>
    /\ Catch(c, errorName)
    /\ UNCHANGED <<timers, clock, args, retryCount, frame, calls, polls, order, costCalls>>

\* the backoff is over: the retry frame is called while this frame still holds
\* the lock, so it starts its 100ms wait; then finally releases the lock
RetryAwaited(c) ==
    /\ pc[c] = "backoff"
    /\ retryCount' = [retryCount EXCEPT ![c] = @ + 1]
    /\ Enter(c, args[c], FALSE)
    /\ UNCHANGED <<timers, store, args, errors, appended, failures, calls, costCalls>>
Retry(c) ==
    /\ pc[c] = "backoff"
    /\ retryCount' = [retryCount EXCEPT ![c] = @ + 1]
    /\ Enter(c, args[c], TRUE)
    /\ UNCHANGED <<timers, store, args, errors, appended, failures, calls, costCalls>>

\* the caller takes the result; it may call again
Return(c) ==
    /\ pc[c] = "done"
    /\ pc' = [pc EXCEPT ![c] = "idle"]
    /\ args' = [args EXCEPT ![c] = Null]
    /\ retryCount' = [retryCount EXCEPT ![c] = 0]
    /\ now' = [now EXCEPT ![c] = 0]
    /\ currentProject' = [currentProject EXCEPT ![c] = Null]
    /\ updateOperations' = [updateOperations EXCEPT ![c] = Null]
    /\ updatedDoc' = [updatedDoc EXCEPT ![c] = Null]
    /\ oldCost' = [oldCost EXCEPT ![c] = 0]
    /\ result' = [result EXCEPT ![c] = Null]
    /\ outcome' = [outcome EXCEPT ![c] = "none"]
    /\ errors' = [errors EXCEPT ![c] = <<>>]
    /\ polls' = [polls EXCEPT ![c] = 0]
    /\ UNCHANGED <<timers, store, updateLocks, clock, appended, failures, calls, order,
                   costCalls>>

\* ------------------------- PUT /api/projects/:id/subgoals/:subgoalId/cost
\* the route answers: status message, and the project sent on success
Respond(c, message, snapshot) ==
    /\ pc' = [pc EXCEPT ![c] = "done"]
    /\ outcome' = [outcome EXCEPT ![c] = message]
    /\ result' = [result EXCEPT ![c] = snapshot]

\* a client sends the request; the handler awaits ensureDbConnection
CallSubgoalCost(c, id, subgoalId, goalCost) ==
    /\ pc[c] = "idle"
    /\ args' = [args EXCEPT ![c] = [op |-> "cost", id |-> id,
                                    subgoalId |-> subgoalId, goalCost |-> goalCost]]
    /\ pc' = [pc EXCEPT ![c] = "costFindOne"]
    /\ calls' = calls + 1
    /\ costCalls' = costCalls + 1
    /\ UNCHANGED <<timers, store, updateLocks, clock, retryCount, frame, result, outcome,
                   errors, appended, failures, polls, order>>

\* findOne resolves: 404 without the project or the sub-goal, else oldCost
\* and the first findOneAndUpdate is sent (new ObjectId throws on a bad id)
CostFindOne(c) ==
    /\ pc[c] = "costFindOne"
    /\ LET id == args[c].id
       IN  IF ~IsValid(id)
           THEN /\ Respond(c, "Failed to update subgoal cost", Null)
                /\ UNCHANGED <<clock, frame>>
           ELSE IF id \notin DOMAIN store
           THEN /\ Respond(c, "Project not found", Null)
                /\ UNCHANGED <<clock, frame>>
           ELSE IF IndexOfGoal(store[id].subgoals, args[c].subgoalId, 1) = 0
           THEN /\ Respond(c, "Subgoal not found", Null)
                /\ UNCHANGED <<clock, frame>>
           ELSE /\ oldCost' = [oldCost EXCEPT ![c] =
                       store[id].subgoals[IndexOfGoal(store[id].subgoals,
                                                      args[c].subgoalId, 1)].goalCost]
                /\ clock' = clock + 1
                /\ now' = [now EXCEPT ![c] = clock + 1]
                /\ pc' = [pc EXCEPT ![c] = "costWrite"]
                /\ UNCHANGED <<currentProject, updateOperations, updatedDoc,
                               result, outcome>>
    /\ UNCHANGED <<timers, store, updateLocks, args, retryCount, errors, appended,
                   failures, calls, polls, order, costCalls>>

\* the entry pushed with the sub-goal write
goalCostEntry(old, new, time) ==
    [type |-> "goal_cost_updated", timestamp |-> time,
     oldValue |-> old, newValue |-> new]

\* the effect of the first findOneAndUpdate (filter _id and subgoals.id):
\* subgoals.$.goalCost, updatedAt and a plain $push to history
WriteGoalCost(doc, subgoalId, newCost, old, time) ==
    LET i == IndexOfGoal(doc.subgoals, subgoalId, 1)
        d == SetFields(doc, [updatedAt |-> time,
                 subgoals |-> [doc.subgoals EXCEPT ![i].goalCost = newCost]])
    IN  [d EXCEPT !.history = PushHistory(d.history,
                                  <<goalCostEntry(old, newCost, time)>>, FALSE)]

\* does the filter of the first findOneAndUpdate match a document
MatchesGoal(id, subgoalId) ==
    /\ id \in DOMAIN store
    /\ IndexOfGoal(store[id].subgoals, subgoalId, 1) # 0

ApplyGoalCost(c) ==
    LET id == args[c].id
    IN  IF MatchesGoal(id, args[c].subgoalId)
        THEN LET d == WriteGoalCost(store[id], args[c].subgoalId, args[c].goalCost,
                                    oldCost[c], now[c])
             IN  /\ store' = [store EXCEPT ![id] = d]
                 /\ appended' = [appended EXCEPT ![id] =
                        Append(@, goalCostEntry(oldCost[c], args[c].goalCost, now[c]))]
        ELSE UNCHANGED <<store, appended>>

\* the first findOneAndUpdate resolves: 404 when nothing matched, else the
\* totals are computed from the returned document and the second is sent
CostWrite(c) ==
    /\ pc[c] = "costWrite"
    /\ ApplyGoalCost(c)
    /\ IF MatchesGoal(args[c].id, args[c].subgoalId)
       THEN /\ updatedDoc' = [updatedDoc EXCEPT ![c] = store'[args[c].id]]
            /\ clock' = clock + 1
            /\ now' = [now EXCEPT ![c] = clock + 1]
            /\ pc' = [pc EXCEPT ![c] = "costFinal"]
            /\ UNCHANGED <<result, outcome>>
       ELSE /\ Respond(c, "Project or subgoal not found", Null)
            /\ UNCHANGED <<updatedDoc, clock, now>>
    /\ UNCHANGED <<timers, updateLocks, args, retryCount, currentProject, updateOperations,
                   oldCost, errors, failures, calls, polls, order, costCalls>>

\* totalGoalsCost: sum of Number(goal.goalCost) || 0 over updatedDoc.subgoals
totalGoalsCostOf(doc) == IF Has(doc, "subgoals") THEN SumGoalCost(doc.subgoals) ELSE 0

\* Number(updatedDoc.originalCost) || Number(updatedDoc.totalCost) || 0
originalCostOf(doc) == NumberOr(doc, "originalCost", NumberOr(doc, "totalCost", 0))

newTotalCostOf(doc) == originalCostOf(doc) + totalGoalsCostOf(doc)

\* the entry pushed with the aggregate write
costEntryFromOriginal(doc, time) ==
    [type |-> "cost_updated", timestamp |-> time,
     oldValue |-> originalCostOf(doc),
     newValue |-> newTotalCostOf(doc)]
costEntry(doc, time) ==
    [type |-> "cost_updated", timestamp |-> time,
     oldValue |-> NumberOr(doc, "totalCost", originalCostOf(doc)),
     newValue |-> newTotalCostOf(doc)]

\* the effect of the second findOneAndUpdate (filter _id)
WriteTotals(doc, fromDoc, time) ==
    LET d == SetFields(doc, [totalGoalsCost |-> totalGoalsCostOf(fromDoc),
                             totalCost |-> newTotalCostOf(fromDoc),
                             updatedAt |-> time])
    IN  [d EXCEPT !.history = PushHistory(d.history, <<costEntry(fromDoc, time)>>, FALSE)]

ApplyTotals(c) ==
    LET id == args[c].id
    IN  IF id \in DOMAIN store
        THEN /\ store' = [store EXCEPT ![id] = WriteTotals(@, updatedDoc[c], now[c])]
             /\ appended' = [appended EXCEPT ![id] =
                    Append(@, costEntry(updatedDoc[c], now[c]))]
        ELSE UNCHANGED <<store, appended>>

\* the second findOneAndUpdate resolves: the response carries finalDoc (the
\* document after the write, else updatedDoc) with the computed totals
CostFinal(c) ==
    /\ pc[c] = "costFinal"
    /\ ApplyTotals(c)
    /\ LET id == args[c].id
           finalDoc == IF id \in DOMAIN store THEN store'[id] ELSE updatedDoc[c]
       IN  Respond(c, "ok",
               SetFields(finalDoc, [totalGoalsCost |-> totalGoalsCostOf(updatedDoc[c]),
                                    totalCost |-> newTotalCostOf(updatedDoc[c])]))
    /\ UNCHANGED <<timers, updateLocks, clock, args, retryCount, frame, errors, failures,
                   calls, polls, order, costCalls>>

\* a store round trip of the route rejects: the catch answers 500; a write
\* may have been applied before the error reached the driver
CostFails(c, errorName, applied) ==
    /\ pc[c] \in {"costFindOne", "costWrite", "costFinal"}
    /\ failures' = failures + 1
    /\ errors' = [errors EXCEPT ![c] = Append(@, errorName)]
    /\ IF applied /\ pc[c] = "costWrite" THEN ApplyGoalCost(c)
       ELSE IF applied /\ pc[c] = "costFinal" THEN ApplyTotals(c)
       ELSE UNCHANGED <<store, appended>>
    /\ Respond(c, "Failed to update subgoal cost", Null)
    /\ UNCHANGED <<timers, updateLocks, clock, args, retryCount, frame, calls, polls, order,
                   costCalls>>

\* ------------------------------------------------------- specifications
\* --------------------------------------------------- ProjectService.delete
\* a caller invokes ProjectService.delete(id): the id check, then getById
CallDelete(c, id) ==
    /\ pc[c] = "idle"
    /\ args' = [args EXCEPT ![c] = [op |-> "delete", id |-> id]]
    /\ calls' = calls + 1
    /\ IF ~IsValid(id)
       THEN Respond(c, "Invalid project ID", Null)
       ELSE /\ pc' = [pc EXCEPT ![c] = "deleteGetById"]
            /\ UNCHANGED <<result, outcome>>
    /\ UNCHANGED <<timers, store, updateLocks, clock, retryCount, frame, errors, appended,
                   failures, polls, order, costCalls>>

\* getById resolves: 'Project not found' for null; a project without images
\* needs no cleanup, so deleteOne is sent
DeleteGetById(c) ==
    /\ pc[c] = "deleteGetById"
    /\ IF args[c].id \notin DOMAIN store
       THEN Respond(c, "Project not found", Null)
       ELSE /\ pc' = [pc EXCEPT ![c] = "deleteOne"]
            /\ UNCHANGED <<result, outcome>>
    /\ UNCHANGED <<timers, store, updateLocks, clock, args, retryCount, frame, errors,
                   appended, failures, calls, polls, order, costCalls>>

\* the collection without the document of id
deleteOne(docs, id) == [i \in DOMAIN docs \ {id} |-> docs[i]]

\* deleteOne resolves: the call returns true
DeleteOne(c) ==
    /\ pc[c] = "deleteOne"
    /\ store' = deleteOne(store, args[c].id)
    /\ Respond(c, "ok", Null)
    /\ UNCHANGED <<timers, updateLocks, clock, args, retryCount, frame, errors, appended,
                   failures, calls, polls, order, costCalls>>
\* ------------------------------------------------------- POST /api/timers
\* a client sends a timer-start request with every required field and no
\* isActive; the handler awaits the database connection
CallStartTimer(c, projectId, goalId) ==
    /\ pc[c] = "idle"
    /\ args' = [args EXCEPT ![c] = [op |-> "timer", projectId |-> projectId,
                                    goalId |-> goalId]]
    /\ pc' = [pc EXCEPT ![c] = "timerUpdateMany"]
    /\ calls' = calls + 1
    /\ UNCHANGED <<timers, store, updateLocks, clock, retryCount, frame, result,
                   outcome, errors, appended, failures, polls, order, costCalls>>

\* updateMany({projectId, goalId}, {$set: {isActive: false}}) on the collection
stopTimers(docs, projectId, goalId) ==
    [i \in 1..Len(docs) |->
        IF docs[i].projectId = projectId /\ docs[i].goalId = goalId
        THEN [docs[i] EXCEPT !.isActive = FALSE]
        ELSE docs[i]]

\* updateMany resolves: newTimer is built and insertOne is sent
TimerUpdateMany(c) ==
    /\ pc[c] = "timerUpdateMany"
    /\ timers' = stopTimers(timers, args[c].projectId, args[c].goalId)
    /\ pc' = [pc EXCEPT ![c] = "timerInsertOne"]
    /\ UNCHANGED <<store, updateLocks, clock, args, retryCount, frame, result,
                   outcome, errors, appended, failures, calls, polls, order,
                   costCalls>>

\* newTimer: isActive !== undefined ? isActive : true
newTimer(projectId, goalId) ==
    [projectId |-> projectId, goalId |-> goalId, isActive |-> TRUE]

\* insertOne resolves: the route answers with the new timer
TimerInsertOne(c) ==
    /\ pc[c] = "timerInsertOne"
    /\ timers' = Append(timers, newTimer(args[c].projectId, args[c].goalId))
    /\ Respond(c, "ok", newTimer(args[c].projectId, args[c].goalId))
    /\ UNCHANGED <<store, updateLocks, clock, args, retryCount, frame, errors,
                   appended, failures, calls, polls, order, costCalls>>
Patches ==
    { [status |-> "waiting"], [status |-> "in-progress"], [totalCost |-> 2],
      [title |-> "t1"], [subgoals |-> <<>>] }

\* the calls of Spec: <<id, patch>> and <<id, subgoalId, goalCost>>
UpdateCalls ==
    ({"p1"} \X Patches)
        \cup { <<"p2", [status |-> "in-progress"]>>, <<"bad", [title |-> "t1"]>> }
GoalCosts == {1, 2}
CostCalls ==
    ({"p1"} \X {"a", "b"} \X GoalCosts) \cup { <<"p1", "zz", 1>>, <<"p2", "a", 1>> }

Next ==
    \/ \E c \in Callers, call \in UpdateCalls :
          CallUpdate(c, call[1], call[2])
    \/ \E c \in Callers, call \in CostCalls :
          CallSubgoalCost(c, call[1], call[2], call[3])
    \/ \E c \in Callers : Poll(c)
    \/ \E c \in Callers : FindOne(c)
    \/ \E c \in Callers : FindOneAndUpdate(c)
    \/ \E c \in Callers, e \in ErrorNames :
          failures < MaxFail /\ FindOneFails(c, e)
    \/ \E c \in Callers, e \in ErrorNames, applied \in BOOLEAN :
          failures < MaxFail /\ FindOneAndUpdateFails(c, e, applied)
    \/ \E c \in Callers : Retry(c)
    \/ \E c \in Callers : CostFindOne(c)
    \/ \E c \in Callers : CostWrite(c)
    \/ \E c \in Callers : CostFinal(c)
    \/ \E c \in Callers, e \in ErrorNames, applied \in BOOLEAN :
          failures < MaxFail /\ CostFails(c, e, applied)

Spec == Init /\ [][Next]_vars

\* LockSpec: two callers of ProjectService.update against a store that may
\* fail up to MaxLockFail times, so that a call can use up its retries
LockCalls ==
    { <<"p1", [status |-> "in-progress"]>>, <<"p1", [title |-> "t1"]>>,
      <<"p2", [status |-> "in-progress"]>>, <<"bad", [status |-> "in-progress"]>> }

LockErrors == {"MongoNetworkTimeoutError", "MongoParseError"}

LockNext ==
    \/ \E c \in Callers, call \in LockCalls : CallUpdate(c, call[1], call[2])
    \/ \E c \in Callers : Poll(c)
    \/ \E c \in Callers : FindOne(c)
    \/ \E c \in Callers : FindOneAndUpdate(c)
    \/ \E c \in Callers, e \in LockErrors :
          failures < MaxLockFail /\ FindOneFails(c, e)
    \/ \E c \in Callers, e \in LockErrors, applied \in BOOLEAN :
          failures < MaxLockFail /\ FindOneAndUpdateFails(c, e, applied)
    \/ \E c \in Callers : Retry(c)

LockSpec == Init /\ [][LockNext]_vars

\* FairLockSpec: the event loop runs every timer and every store response, so
\* a handler that can resume does resume; the store is not bound to fail
Resume(c) == Poll(c) \/ FindOne(c) \/ FindOneAndUpdate(c) \/ Retry(c)

FairLockSpec == LockSpec /\ \A c \in Callers : WF_vars(Resume(c))

\* SeqSpec: one caller makes one call after the other against a store that
\* does not fail: updates that flip the status (one patch also carries the
\* fields cleanUpdateData removes), and sub-goal cost updates
SeqStatus == IF store["p1"].status = "waiting" THEN "in-progress" ELSE "waiting"

SeqPatches ==
    { [status |-> SeqStatus],
      [status |-> SeqStatus, history |-> <<>>, id |-> "p2", _id |-> "p2",
       createdAt |-> 9] }

SeqNext ==
    \/ \E patch \in SeqPatches :
          calls < MaxSeqCalls /\ CallUpdate("c1", "p1", patch)
    \/ \E cost \in GoalCosts :
          /\ calls < MaxSeqCalls
          /\ costCalls < MaxSeqCostCalls
          /\ CallSubgoalCost("c1", "p1", "a", cost)
    \/ FindOne("c1")
    \/ FindOneAndUpdate("c1")
    \/ CostFindOne("c1")
    \/ CostWrite("c1")
    \/ CostFinal("c1")
    \/ Return("c1")

SeqSpec == Init /\ [][SeqNext]_vars

\* DeleteSpec: two callers, one call each, of update, the sub-goal cost route
\* and delete, against a store that does not fail
DeleteUpdateCalls ==
    { <<"p1", [status |-> "in-progress"]>>, <<"p1", [title |-> "t1"]>> }
DeleteCostCalls == {"p1"} \X {"a"} \X GoalCosts

DeleteNext ==
    \/ \E c \in Callers, call \in DeleteUpdateCalls : CallUpdate(c, call[1], call[2])
    \/ \E c \in Callers, call \in DeleteCostCalls :
          CallSubgoalCost(c, call[1], call[2], call[3])
    \/ \E c \in Callers, id \in Ids : CallDelete(c, id)
    \/ \E c \in Callers : Poll(c)
    \/ \E c \in Callers : FindOne(c)
    \/ \E c \in Callers : FindOneAndUpdate(c)
    \/ \E c \in Callers : CostFindOne(c)
    \/ \E c \in Callers : CostWrite(c)
    \/ \E c \in Callers : CostFinal(c)
    \/ \E c \in Callers : DeleteGetById(c)
    \/ \E c \in Callers : DeleteOne(c)

DeleteSpec == Init /\ [][DeleteNext]_vars
\* DetectSpec: two callers, one update of p1 each, with every combination of
\* the audited fields in the patch (left out, equal to the stored value,
\* different from it), and patches that carry originalCost
PatchOf(fields, status, totalCost, subgoals) ==
    [f \in fields |->
        IF f = "status" THEN status
        ELSE IF f = "totalCost" THEN totalCost
        ELSE subgoals]

DetectPatches ==
    { PatchOf(fields, status, totalCost, subgoals) :
        fields \in SUBSET {"status", "totalCost", "subgoals"},
        status \in {"waiting", "in-progress"},
        totalCost \in {1, 2},
        subgoals \in {<<>>, InitSubgoals} }
      \cup { [originalCost |-> 5], [originalCost |-> 5, totalCost |-> 2] }

DetectNext ==
    \/ \E c \in Callers, patch \in DetectPatches : CallUpdate(c, "p1", patch)
    \/ \E c \in Callers : Poll(c)
    \/ \E c \in Callers : FindOne(c)
    \/ \E c \in Callers : FindOneAndUpdate(c)

DetectSpec == Init /\ [][DetectNext]_vars
\* RuleSpec: the totalCost rule over its inputs: two callers, one update
\* each, of a project without sub-goals whose totalCost is 0, 1 or missing
\* (a document that reached the collection without the field), with patch
\* costs 0, 1, 2 or none
RuleDocs ==
    LET doc == create([title |-> "t0", totalCost |-> 0, subgoals |-> <<>>], 0)
    IN  { doc, [doc EXCEPT !.totalCost = 1, !.originalCost = 1],
          [f \in DOMAIN doc \ {"totalCost"} |-> doc[f]] }

RuleInit ==
    /\ store \in [{"p1"} -> RuleDocs]
    /\ updateLocks = {}
    /\ clock = 0
    /\ pc = [c \in Callers |-> "idle"]
    /\ args = [c \in Callers |-> Null]
    /\ retryCount = [c \in Callers |-> 0]
    /\ now = [c \in Callers |-> 0]
    /\ currentProject = [c \in Callers |-> Null]
    /\ updateOperations = [c \in Callers |-> Null]
    /\ updatedDoc = [c \in Callers |-> Null]
    /\ oldCost = [c \in Callers |-> 0]
    /\ result = [c \in Callers |-> Null]
    /\ outcome = [c \in Callers |-> "none"]
    /\ errors = [c \in Callers |-> <<>>]
    /\ appended = [id \in ValidIds |-> IF id \in DOMAIN store THEN store[id].history ELSE <<>>]
    /\ failures = 0
    /\ calls = 0
    /\ polls = [c \in Callers |-> 0]
    /\ queue = <<>>
    /\ overtaken = [c \in Callers |-> 0]
    /\ timers = <<>>
    /\ costCalls = 0

RulePatches ==
    { [totalCost |-> cost] : cost \in {0, 1, 2} }
      \cup { [totalCost |-> cost, title |-> "t1"] : cost \in {0, 1, 2} }
      \cup { [title |-> "t1"], [status |-> "in-progress", totalCost |-> 0] }

RuleNext ==
    \/ \E c \in Callers, patch \in RulePatches : CallUpdate(c, "p1", patch)
    \/ \E c \in Callers : Poll(c)
    \/ \E c \in Callers : FindOne(c)
    \/ \E c \in Callers : FindOneAndUpdate(c)

RuleSpec == RuleInit /\ [][RuleNext]_vars
\* RetrySpec: one caller of ProjectService.update, no other caller, against a
\* store that fails up to MaxLockFail times; the event loop runs every timer
\* and every store response
RetryNext ==
    \/ \E call \in LockCalls : CallUpdate("c1", call[1], call[2])
    \/ Poll("c1")
    \/ FindOne("c1")
    \/ FindOneAndUpdate("c1")
    \/ \E e \in LockErrors : failures < MaxLockFail /\ FindOneFails("c1", e)
    \/ \E e \in LockErrors, applied \in BOOLEAN :
          failures < MaxLockFail /\ FindOneAndUpdateFails("c1", e, applied)
    \/ Retry("c1")

RetrySpec == Init /\ [][RetryNext]_vars /\ WF_vars(Resume("c1"))
\* TimerSpec: two clients send up to MaxTimerCalls timer-start requests for
\* the goals of one project
TimerGoals == {"a", "b"}

TimerNext ==
    \/ \E c \in Callers, goalId \in TimerGoals :
          calls < MaxTimerCalls /\ CallStartTimer(c, "p1", goalId)
    \/ \E c \in Callers : TimerUpdateMany(c)
    \/ \E c \in Callers : TimerInsertOne(c)
    \/ \E c \in Callers : Return(c)

TimerSpec == Init /\ [][TimerNext]_vars
TypeOK ==
    /\ updateLocks \subseteq Ids
    /\ DOMAIN store \subseteq ValidIds
    /\ \A c \in Callers : pc[c] \in {"idle", "waiting", "findOne", "findOneAndUpdate",
                                     "backoff", "costFindOne", "costWrite",
                                     "costFinal", "deleteGetById", "deleteOne",
                                     "timerUpdateMany", "timerInsertOne", "done"}

\* ---------------------------------------------------------------- claims
\* the callers whose update frame holds the lock of id
Holders(id) == {c \in Callers : InCritical(c) /\ args[c].id = id}

\* the store errors a call has met are all of the retryable kind
AllRetryable(errs) == \A i \in 1..Len(errs) : errs[i] \in RetryableErrors

UpdateDone(c) == pc[c] = "done" /\ args[c].op = "update"

\* C1: for every project id, at most one ProjectService.update frame is
\* between updateLocks.set and its finally, also while calls are retrying.
C1_MutualExclusion == \A id \in Ids : Cardinality(Holders(id)) <= 1

\* a retried frame holds the lock while the other caller waits for the same id
C1_Witness ==
    \E c \in Callers, d \in Callers :
        /\ c # d
        /\ InCritical(c) /\ retryCount[c] > 0
        /\ pc[d] = "waiting" /\ args[d].id = args[c].id

\* C2: an id is marked busy only while some update frame is inside its
\* try block: every finished frame has deleted its key on its way out.
C2_LockReleased == \A id \in Ids : id \in updateLocks => Holders(id) # {}

\* a call has used up its retries and the other caller then holds the same id
C2_Witness ==
    \E c \in Callers, d \in Callers :
        /\ c # d
        /\ UpdateDone(c) /\ outcome[c] \in RetryableErrors
        /\ retryCount[c] = maxRetries
        /\ InCritical(d) /\ args[d].id = args[c].id

\* an update of an existing project that met k < 3 store errors, all of them
\* retryable, has returned the document after its update, with every field
\* of the patch as requested, after at most k retries
RetrySucceeded ==
    \A c \in Callers :
        (/\ UpdateDone(c)
         /\ args[c].id \in DOMAIN store
         /\ Len(errors[c]) < 3
         /\ AllRetryable(errors[c]))
        => /\ outcome[c] = "ok"
           /\ retryCount[c] <= Len(errors[c])
           /\ ~IsNull(result[c])
           /\ \A f \in DOMAIN args[c].patch : result[c][f] = args[c].patch[f]

\* C9: against a store that fails transiently k < 3 times and then succeeds,
\* updateProject eventually returns, and what it returns is the updated
\* snapshot, the change stored, after at most k retries.
C9_RetrySuccess ==
    /\ []RetrySucceeded
    /\ \A c \in Callers : (pc[c] # "idle") ~> (pc[c] = "done")

\* an update has succeeded on its third attempt
C9_Witness ==
    \E c \in Callers :
        UpdateDone(c) /\ Len(errors[c]) = 2 /\ outcome[c] = "ok" /\ retryCount[c] = 2

Pushed(c) == updateOperations[c].push # <<>>

\* x then y is a serial order of two finished updates of one project: y read
\* the document x returned, changed it by its own update document alone, and
\* the stored document is the one y returned
SerialOrder(x, y) ==
    LET id == args[x].id
    IN  /\ currentProject[y] = result[x]
        /\ result[y] = ApplyUpdate(result[x], updateOperations[y])
        /\ store[id] = result[y]
        /\ \A f \in DOMAIN args[y].patch : store[id][f] = args[y].patch[f]
        /\ \A f \in DOMAIN args[x].patch \ DOMAIN args[y].patch :
              store[id][f] = args[x].patch[f]
        /\ Len(store[id].history) = Len(currentProject[x].history) + 2
        /\ LastN(store[id].history, 2) = updateOperations[x].push \o updateOperations[y].push
        /\ appended[id] = currentProject[x].history
                              \o updateOperations[x].push \o updateOperations[y].push

\* two updates of one project with different patches, each recorded as a
\* change, have both returned, and the store failed in neither
BothUpdated(x, y) ==
    /\ x # y
    /\ UpdateDone(x) /\ UpdateDone(y)
    /\ outcome[x] = "ok" /\ outcome[y] = "ok"
    /\ args[x].id = args[y].id
    /\ args[x].patch # args[y].patch
    /\ errors[x] = <<>> /\ errors[y] = <<>>
    /\ Pushed(x) /\ Pushed(y)

\* C3: two concurrent updates of one id with different patches, each a
\* significant change when applied and neither hit by a store error, leave
\* the state of one applied after the other, with exactly two entries appended.
C3_NoLostUpdate ==
    \A x \in Callers, y \in Callers :
        BothUpdated(x, y) => SerialOrder(x, y) \/ SerialOrder(y, x)

\* the second of two such updates had to wait for the lock of the first
C3_Witness ==
    \E x \in Callers, y \in Callers :
        /\ BothUpdated(x, y)
        /\ now[x] < now[y]
        /\ Has(args[x].patch, "status") /\ Has(args[y].patch, "totalCost")

\* a patch that repeats the status, the sub-goal count and the totalCost of
\* the document, or leaves them out
SameAsCurrent(patch, doc) ==
    /\ Has(patch, "status") => patch.status = doc.status
    /\ Has(patch, "subgoals") => Len(patch.subgoals) = Len(doc.subgoals)
    /\ Has(patch, "totalCost") => patch.totalCost = doc.totalCost

\* C4: an update whose patch repeats status, sub-goal count and totalCost of
\* the current snapshot (or leaves them out) appends no history entry.
C4_NoOpSuppression ==
    \A c \in Callers :
        (/\ UpdateDone(c) /\ outcome[c] = "ok"
         /\ ~IsNull(currentProject[c])
         /\ SameAsCurrent(args[c].patch, currentProject[c]))
        => ~Pushed(c)

\* C5: the history of a stored project never has more than 20 entries.
C5_HistoryBounded ==
    \A id \in DOMAIN store : Len(store[id].history) <= HistoryLimit

\* C6: after N >= 20 recorded updates of a project (and no sub-goal cost
\* call), its history is exactly the 20 newest of the entries ever
\* appended, in the order of appending, oldest first.
C6_BoundedHistory ==
    \A id \in DOMAIN store :
        (costCalls = 0 /\ Len(appended[id]) - 1 >= 20)
        => /\ Len(store[id].history) = 20
           /\ \A i \in 1..20 :
                 store[id].history[i] = appended[id][Len(appended[id]) - 20 + i]
           /\ \A i \in 1..19 :
                 store[id].history[i].timestamp < store[id].history[i + 1].timestamp

\* 21 updates were recorded, so that the two oldest entries are gone
C6_Witness ==
    /\ costCalls = 0
    /\ Len(appended["p1"]) = 22
    /\ pc["c1"] = "done"
    /\ store["p1"].history[1] = appended["p1"][3]

CostDone(c) == pc[c] = "done" /\ args[c].op = "cost" /\ outcome[c] = "ok"

\* totalGoalsCost and totalCost of a document agree with its sub-goals
TotalsAgree(doc) ==
    /\ Has(doc, "totalGoalsCost") => doc.totalGoalsCost = SumGoalCost(doc.subgoals)
    /\ doc.totalCost = doc.originalCost + SumGoalCost(doc.subgoals)

\* C7: when a sub-goal cost update that ran on its own has completed, the
\* stored totalGoalsCost is the sum of the goalCost of the sub-goals and the
\* stored totalCost is originalCost plus that sum.
C7_AggregateInvariant ==
    \A c \in Callers :
        CostDone(c)
        => /\ Has(store[args[c].id], "totalGoalsCost")
           /\ TotalsAgree(store[args[c].id])

\* C8: while only sub-goal cost updates run, every stored state has
\* totalCost = originalCost + the sum of the stored goalCost values.
C8_NeverStale ==
    (\A c \in Callers : pc[c] = "idle" \/ args[c].op = "cost")
    => \A id \in DOMAIN store : TotalsAgree(store[id])

IdentityErrors == {"Invalid project ID", "Project not found"}

\* C12: validation and identity errors are never retried: a frame waits in
\* the backoff only after a retryable store error, so a call that ends with
\* 'Invalid project ID' or 'Project not found' made no attempt after the one
\* that met it (its retries are all retries of store errors), and a call that
\* ends with 'Invalid project ID' made exactly one attempt
C12_NeverRetried ==
    \A c \in Callers :
        /\ pc[c] = "backoff" =>
              /\ Len(errors[c]) = retryCount[c] + 1
              /\ errors[c][Len(errors[c])] \in RetryableErrors
        /\ UpdateDone(c) /\ outcome[c] \in IdentityErrors =>
              /\ retryCount[c] = Len(errors[c])
              /\ AllRetryable(errors[c])
        /\ UpdateDone(c) /\ outcome[c] = "Invalid project ID" => retryCount[c] = 0

\* a call retried a store error, then met 'Project not found' and ended at once
C12_Witness ==
    \E c \in Callers :
        UpdateDone(c) /\ outcome[c] = "Project not found" /\ retryCount[c] >= 1

\* C13: a malformed id is rejected before any I/O: the call ends in the step
\* that starts it, with 'Invalid project ID', without a snapshot read, a store
\* round trip or a store error, and that step leaves every project unchanged
C13_InvalidIdBeforeIO ==
    /\ [](\A c \in Callers :
            pc[c] # "idle" /\ args[c].op = "update" /\ args[c].id \in InvalidIds =>
                /\ pc[c] = "done"
                /\ outcome[c] = "Invalid project ID"
                /\ IsNull(result[c])
                /\ IsNull(currentProject[c])
                /\ IsNull(updateOperations[c])
                /\ errors[c] = <<>>)
    /\ [][\A c \in Callers :
            pc[c] = "idle" /\ pc'[c] # "idle" /\ args'[c].id \in InvalidIds =>
                store' = store /\ appended' = appended]_vars

\* an update with a malformed id has failed
C13_Witness ==
    \E c \in Callers :
        UpdateDone(c) /\ args[c].id \in InvalidIds /\ outcome[c] = "Invalid project ID"

\* C14 (as stated): no partial success: a call of updateProject or
\* updateSubgoalCost that answers with success does so over a stored project
\* that holds the change: the snapshot returned by updateProject is the stored
\* document, the totals answered by updateSubgoalCost are the stored totals
C14_NoPartialSuccess ==
    [][\A c \in Callers :
        (/\ pc[c] # "done"
         /\ pc'[c] = "done"
         /\ outcome'[c] = "ok"
         /\ args'[c].op \in {"update", "cost"}) =>
            /\ args'[c].id \in DOMAIN store'
            /\ args'[c].op = "update" => result'[c] = store'[args'[c].id]
            /\ args'[c].op = "cost" =>
                  /\ store'[args'[c].id].totalCost = result'[c].totalCost
                  /\ store'[args'[c].id].totalGoalsCost = result'[c].totalGoalsCost]_vars

\* C15: calls for different ids do not wait for each other: a call starts a
\* wait, or waits again after a poll, only when the lock of its own id is
\* held by an update frame for that same id
C15_ParallelIds ==
    [][\A c \in Callers :
        (pc'[c] = "waiting" /\ (pc[c] # "waiting" \/ polls'[c] # polls[c])) =>
            /\ args'[c].id \in updateLocks
            /\ Holders(args'[c].id) # {}]_vars

\* updates for two different ids are inside their critical sections together
C15_Witness ==
    \E c, d \in Callers :
        /\ InCritical(c)
        /\ InCritical(d)
        /\ args[c].id # args[d].id
        /\ {args[c].id, args[d].id} \subseteq updateLocks

\* history h2 is history h1 with exactly one entry appended
AppendsOne(h1, h2) == Len(h2) = Len(h1) + 1 /\ SubSeq(h2, 1, Len(h1)) = h1

StatusRule(patch, doc) == Has(patch, "status") /\ patch.status # doc.status
CountRule(patch, doc) ==
    Has(patch, "subgoals") /\ Len(patch.subgoals) # Len(doc.subgoals)
CostRule(patch, doc) ==
    /\ Has(patch, "totalCost")
    /\ patch.totalCost # (IF Has(doc, "totalCost") THEN doc.totalCost ELSE 0)

\* C17 (as stated): the type of the recorded entry follows the rule that
\* fired: for an update that records an entry and for which a rule did fire,
\* the entry is status_changed only if the status changed, goals_updated only
\* if the status did not change and the sub-goal count changed, cost_updated
\* only if neither of those fired and the cost changed
C17_TypeFollowsRule ==
    \A c \in Callers :
        (/\ UpdateDone(c) /\ outcome[c] = "ok"
         /\ Pushed(c)
         /\ \/ StatusRule(args[c].patch, currentProject[c])
            \/ CountRule(args[c].patch, currentProject[c])
            \/ CostRule(args[c].patch, currentProject[c])) =>
            LET type == updateOperations[c].push[1].type
                patch == args[c].patch
                cur == currentProject[c]
            IN  /\ type = "status_changed" => StatusRule(patch, cur)
                /\ type = "goals_updated" =>
                      ~StatusRule(patch, cur) /\ CountRule(patch, cur)
                /\ type = "cost_updated" =>
                      /\ ~StatusRule(patch, cur)
                      /\ ~CountRule(patch, cur)
                      /\ CostRule(patch, cur)

\* C18 (as stated): originalCost is immutable by updates: no step of an
\* update changes the stored originalCost of a project, whatever the patch
C18_OriginalCostImmutable ==
    [][\A id \in DOMAIN store \cap DOMAIN store' :
          store'[id].originalCost = store[id].originalCost]_vars

\* history h2 is history h1 after an append-only update: the same, or h1 with
\* one entry appended at the end and entries dropped from the front only, so
\* that no more than HistoryLimit are left
AppendOnly(h1, h2) ==
    \/ h2 = h1
    \/ /\ Len(h2) >= 1
       /\ Len(h2) = (IF Len(h1) + 1 > HistoryLimit THEN HistoryLimit ELSE Len(h1) + 1)
       /\ \A i \in 1..(Len(h2) - 1) : h2[i] = h1[Len(h1) + 1 - Len(h2) + i]

\* C19: history is append-only for updateProject: the write of an update,
\* whatever fields its patch carries (history, id, _id and createdAt
\* included), leaves the history as it was or appends one entry at its end,
\* dropping entries from the front only, and leaves createdAt out of reach
C19_AppendOnly ==
    [][\A c \in Callers :
        (/\ pc[c] = "findOneAndUpdate"
         /\ pc'[c] = "done"
         /\ args[c].id \in DOMAIN store) =>
            /\ AppendOnly(store[args[c].id].history, store'[args[c].id].history)
            /\ DOMAIN store'[args[c].id] = DOMAIN store[args[c].id]]_vars

\* an update whose patch carries a history field has been written to a
\* full history: one entry was appended and the oldest was dropped
C19_Witness ==
    /\ UpdateDone("c1")
    /\ outcome["c1"] = "ok"
    /\ Has(args["c1"].patch, "history")
    /\ Pushed("c1")
    /\ Len(currentProject["c1"].history) = HistoryLimit
    /\ store["p1"].history[1] = currentProject["c1"].history[2]

\* C20 (as stated): the sub-goal rule of the change detector fires exactly
\* when the patch specifies a sub-goal list whose length differs from the
\* length of the current list; a patch without subgoals never makes it fire
C20_SubgoalRule ==
    \A c \in Callers :
        (/\ pc[c] \in {"findOneAndUpdate", "done"}
         /\ args[c].op = "update"
         /\ ~IsNull(currentProject[c])) =>
            (subgoalsChanged(args[c].patch, currentProject[c])
                <=> CountRule(args[c].patch, currentProject[c]))

\* C21: the totalCost rule is significant exactly when the patch specifies a
\* cost that differs from the current totalCost, an absent current totalCost
\* counting as 0; for a project without sub-goals and a patch without status
\* and subgoals, a history entry is pushed exactly in that case
C21_TotalCostRule ==
    \A c \in Callers :
        (/\ pc[c] \in {"findOneAndUpdate", "done"}
         /\ args[c].op = "update"
         /\ ~IsNull(currentProject[c])) =>
            LET patch == args[c].patch
                cur == currentProject[c]
            IN  /\ totalCostChanged(patch, cur) <=> CostRule(patch, cur)
                /\ (/\ ~Has(patch, "status")
                    /\ ~Has(patch, "subgoals")
                    /\ cur.subgoals = <<>>) => (Pushed(c) <=> CostRule(patch, cur))

\* a patch cost of 0 against a project with no totalCost pushed no entry
C21_Witness ==
    \E c \in Callers :
        /\ UpdateDone(c) /\ outcome[c] = "ok"
        /\ ~IsNull(currentProject[c])
        /\ ~Has(currentProject[c], "totalCost")
        /\ Has(args[c].patch, "totalCost")
        /\ args[c].patch.totalCost = 0
        /\ ~Pushed(c)

\* the fields the change detector audits
AuditedFields == {"status", "subgoals", "totalCost"}

\* C22: an update whose patch has no audited field (status, subgoals,
\* totalCost) reads no snapshot for diffing and builds no history entry, and
\* its write sets the fields of the patch and updatedAt and leaves the
\* history as it was
C22_NonAuditedSkipsHistory ==
    /\ [](\A c \in Callers :
            (/\ pc[c] # "idle"
             /\ args[c].op = "update"
             /\ DOMAIN args[c].patch \cap AuditedFields = {}) =>
                /\ pc[c] # "findOne"
                /\ IsNull(currentProject[c])
                /\ ~IsNull(updateOperations[c]) => ~Pushed(c))
    /\ [][\A c \in Callers :
            (/\ pc[c] = "findOneAndUpdate"
             /\ args[c].op = "update"
             /\ DOMAIN args[c].patch \cap AuditedFields = {}
             /\ pc'[c] = "done"
             /\ outcome'[c] = "ok") =>
                LET id == args[c].id
                IN  /\ store'[id].history = store[id].history
                    /\ store'[id].updatedAt = now[c]
                    /\ \A f \in DOMAIN cleanUpdateData(args[c].patch) :
                          store'[id][f] = args[c].patch[f]
                    /\ \A f \in DOMAIN store[id] \ (DOMAIN args[c].patch \cup {"updatedAt"}) :
                          store'[id][f] = store[id][f]]_vars

\* an update of the title alone has been stored without a history entry
C22_Witness ==
    \E c \in Callers :
        /\ UpdateDone(c) /\ outcome[c] = "ok"
        /\ args[c].patch = [title |-> "t1"]
        /\ result[c].title = "t1"
        /\ IsNull(currentProject[c])
        /\ ~Pushed(c)

\* C23 (as stated): the derived-cost invariant holds after every
\* cost-affecting mutation: an update that sets totalCost or replaces the
\* sub-goal list of a project whose totals agreed returns a document with
\* totalCost = originalCost + the sum of the goalCost of its sub-goals
C23_DerivedCostInvariant ==
    \A c \in Callers :
        (/\ UpdateDone(c) /\ outcome[c] = "ok"
         /\ ~IsNull(currentProject[c])
         /\ TotalsAgree(currentProject[c])
         /\ DOMAIN args[c].patch \cap {"totalCost", "subgoals"} # {}
         /\ ~Has(args[c].patch, "originalCost")) =>
            TotalsAgree(result[c])

\* C24 (as stated): the aggregate recomputation is idempotent: a sub-goal
\* cost update that leaves the sub-goal list as it is (it writes the cost the
\* sub-goal already has), run right after another sub-goal cost update,
\* stores the totals that one had stored
C24_RecomputeIdempotent ==
    LET c == "c1"
        h == store[args[c].id].history
        n == Len(h)
    IN  (/\ CostDone(c)
         /\ oldCost[c] = args[c].goalCost
         /\ n >= 4
         /\ h[n - 2].type = "cost_updated") =>
            /\ store[args[c].id].totalCost = h[n - 2].newValue
            /\ store[args[c].id].totalGoalsCost = updatedDoc[c].totalGoalsCost

\* C25 (as stated): a retry adds no duplicate history entry: while one
\* update call is the only writer of a project, however many of its attempts
\* were applied and then reported as failed, the call has appended no more
\* than one entry to the history of the project
C25_RetryNoDuplicate ==
    \A c \in Callers :
        (/\ pc[c] # "idle"
         /\ args[c].op = "update"
         /\ args[c].id \in DOMAIN store
         /\ \A d \in Callers \ {c} : pc[d] = "idle") =>
            Len(appended[args[c].id]) <= 1 + 1

\* a waiting call takes the lock at its poll
Acquire(c) == Poll(c) /\ pc'[c] # "waiting"

\* C26: updates of one id are serialized but not in FIFO order: a call
\* leaves its wait only into a critical section that no other call of the id
\* is in, and every waiting call whose id is free can take the lock at its
\* next poll, whichever call began to wait first
C26_NotFifo ==
    /\ [](\A c \in Callers :
            (pc[c] = "waiting" /\ args[c].id \notin updateLocks) => ENABLED Acquire(c))
    /\ [][\A c \in Callers :
            (pc[c] = "waiting" /\ pc'[c] \in {"findOne", "findOneAndUpdate"}) =>
                /\ Holders(args[c].id) = {}
                /\ \A d \in Callers \ {c} :
                      ~(pc'[d] \in {"findOne", "findOneAndUpdate", "backoff"}
                        /\ args'[d].id = args[c].id)]_vars

\* a call is still waiting after MaxOvertake acquisitions of its id by calls
\* whose waits began later, and the id is held again
C26_Witness ==
    \E c, d \in Callers :
        /\ c # d
        /\ pc[d] = "waiting"
        /\ overtaken[d] = MaxOvertake
        /\ InCritical(c)
        /\ args[c].id = args[d].id

\* C27: a retrying update does not block on its own lock: when the backoff of
\* a failed attempt ends, the retry starts its wait and the lock of the failed
\* attempt is released; the retry then takes the lock and the call ends; and
\* an attempt is at a store operation only while the lock of its id is held
C27_RetryNotBlocked ==
    /\ [](\A c \in Callers : InCritical(c) => args[c].id \in updateLocks)
    /\ [][\A c \in Callers :
            (pc[c] = "backoff" /\ pc'[c] # "backoff") =>
                /\ pc'[c] = "waiting"
                /\ retryCount'[c] = retryCount[c] + 1
                /\ args[c].id \notin updateLocks']_vars
    /\ \A c \in Callers :
          (pc[c] = "backoff") ~> (pc[c] \in {"findOne", "findOneAndUpdate"})
    /\ \A c \in Callers : (pc[c] = "backoff") ~> (pc[c] = "done")

\* with no other caller, a retry attempt is at its store operation and
\* holds the lock that the failed attempt had released
C27_Witness ==
    \E c \in Callers :
        /\ retryCount[c] >= 1
        /\ pc[c] \in {"findOne", "findOneAndUpdate"}
        /\ updateLocks = {args[c].id}
        /\ \A d \in Callers \ {c} : pc[d] = "idle"

\* C28 (as stated): the per-id mutual exclusion covers the sub-goal cost
\* route: no write of a sub-goal cost call changes a project while an update
\* frame holds the lock of its id, and no update writes a project between the
\* two writes of a sub-goal cost call to it
C28_LockCoversCostRoute ==
    [][\A c \in Callers :
        /\ (/\ pc[c] \in {"costWrite", "costFinal"}
            /\ pc'[c] # pc[c]
            /\ args[c].id \in DOMAIN store
            /\ store'[args[c].id] # store[args[c].id]) =>
               args[c].id \notin updateLocks
        /\ (/\ pc[c] = "findOneAndUpdate"
            /\ pc'[c] # pc[c]
            /\ args[c].id \in DOMAIN store
            /\ store'[args[c].id] # store[args[c].id]) =>
               \A d \in Callers \ {c} :
                   ~(pc[d] = "costFinal" /\ args[d].id = args[c].id)]_vars

\* C29: an update that races with a delete never brings the project back: no
\* step adds a document to the collection, and the write of an update either
\* changes the document that is still stored and returns it, or finds none,
\* changes nothing and fails with 'Project not found'
C29_NoResurrection ==
    [][/\ DOMAIN store' \subseteq DOMAIN store
       /\ \A c \in Callers :
            (pc[c] = "findOneAndUpdate" /\ pc'[c] = "done") =>
                IF args[c].id \in DOMAIN store
                THEN /\ outcome'[c] = "ok"
                     /\ args[c].id \in DOMAIN store'
                     /\ result'[c] = store'[args[c].id]
                ELSE /\ outcome'[c] = "Project not found"
                     /\ store' = store]_vars

\* an update read the project, a delete then removed it, and the update
\* failed with 'Project not found'; the project is gone
C29_Witness ==
    \E c, d \in Callers :
        /\ UpdateDone(c) /\ outcome[c] = "Project not found"
        /\ ~IsNull(currentProject[c])
        /\ pc[d] = "done" /\ args[d].op = "delete" /\ outcome[d] = "ok"
        /\ args[d].id = args[c].id
        /\ args[c].id \notin DOMAIN store

\* C30 (as stated): after any interleaving of timer-start requests for one
\* (projectId, goalId), at most one timer document of the pair is active
C30_OneActiveTimer ==
    \A projectId \in ValidIds, goalId \in TimerGoals :
        Cardinality({i \in 1..Len(timers) :
                        /\ timers[i].projectId = projectId
                        /\ timers[i].goalId = goalId
                        /\ timers[i].isActive}) <= 1

====
